---- MODULE Spec2Model ----
(***************************************************************************)
(* Lazy PTDF transmission-constraint helpers of egret/models/              *)
(* lazy_ptdf_utils.py: check_violations, add_violations, the tolerance     *)
(* option helpers and the binary relaxer and enforcer; and the validators  *)
(* of the data schema of egret/models/schema_demo.py.                      *)
(*                                                                         *)
(* Encoding.  Python's None is the empty tuple and a present value x is    *)
(* the 1-tuple <<x>>.  Row and bus indices are 0-based as in numpy.        *)
(* Flows, limits and injections are integers (per-unit quantities on an    *)
(* integer grid); the comparisons are the strict ones of the code.         *)
(***************************************************************************)
EXTENDS Integers, Sequences, FiniteSets, TLC

None == <<>>
Some(x) == <<x>>

----------------------------------------------------------------------------
(* Bounds of the model *)
NumBranches == 2
NumBuses == 2
MaxInj == 1
MaxLimit == 1

BranchIdx == 0 .. (NumBranches - 1)
BusIdx == 0 .. (NumBuses - 1)
Injections == (0 - MaxInj) .. MaxInj
LimitVals == 0 .. MaxLimit

----------------------------------------------------------------------------
(* The PTDF bundle: the fixed part *)

\* PTDF_dict['branches_idx']: row index -> branch name.  Names descend while
\* rows ascend, so that row order and name order differ.
branches_idx == [i \in BranchIdx |-> 100 + NumBranches - i]

\* PTDF_dict['buses_idx']: column index -> bus name
buses_idx == [j \in BusIdx |-> 201 + j]

BranchNames == {branches_idx[i] : i \in BranchIdx}

\* PTDF_dict['PTDFM']: lower-triangular sensitivities with zero, negative and
\* positive entries, chosen so that every combination of flow signs occurs
PTDFM == [i \in BranchIdx |-> [j \in BusIdx |->
            IF j = i % NumBuses THEN 1 + i ELSE IF j < i % NumBuses THEN -1 ELSE 0]]

\* branches[bn]['rating_long_term']
RatingOf(bn) == 2 + (bn % 2)

\* md.data['system']['baseMVA']
baseMVA == 100

----------------------------------------------------------------------------
VARIABLES
    PTDF_dict,          \* [enforced_branch_limits, lazy_branch_limits]: row -> limit
    branches,           \* bn -> [rating_long_term, ptdf]; ptdf is None or Some(row map)
    mb,                 \* [pf, ineq_pf_branch_thermal_lb, ineq_pf_branch_thermal_ub]
    persistent_solver,  \* isinstance(solver, PersistentSolver)
    solver,             \* the constraints handed to solver.add_constraint, in order
    PFV,                \* flows returned by the last check_violations
    viol_num,           \* violation count returned by the last check_violations
    viols_tup,          \* [gt_viol, lt_viol, gt_viol_lazy, lt_viol_lazy] of the last check
    called,             \* add_violations ran since the last check_violations
    time_label,         \* the time label of this model block: None or Some(t)
    output,             \* events of the last add_violations call since the last check
    repeated,           \* the last add_violations call repeated the one before it
    dup_output,         \* diagnostics of a repeated call that the call before it printed
    all_viol_in_mb,     \* the local computed at the end of the last add_violations
    ret,                \* what the last add_violations returned to its caller
    bus_nw_exprs,       \* the bus injection expressions of the last check: bus -> value
    nw_evals,           \* the buses whose expression the last check evaluated, in order
    builds,             \* bn -> how often its flow expression and its ptdf row were built
    ptdf_options_dict,  \* the tolerance options: key -> None or Some(value)
    opt_baseMVA,        \* the baseMVA passed to check_and_scale_ptdf_options
    opt_scalings,       \* check_and_scale_ptdf_options calls so far
    opt_before,         \* the options dict as it was before the last option call
    opt_outcome,        \* how the last option call ended
    opt_warnings,       \* the warnings printed by the last check_and_scale call
    schema_call,        \* the validator applied last: "none", "system", "fixed_commitment"
    schema_input,       \* the input it was given
    schema_errors,      \* the fields it rejected
    instance,           \* the unit-commitment instance: formulation and index sets
    var_domain,         \* variable -> "Binary" or "UnitInterval"
    uc_persistent,      \* the relaxer's solver is a PersistentSolver
    uc_calls,           \* the relaxer and enforcer calls made so far: "relax", "enforce"
    uc_updates          \* the variables of the last call's solver.update_var calls, in order

engine_vars == <<PTDF_dict, branches, mb, persistent_solver, solver, PFV, viol_num,
                 viols_tup, called, time_label, output, repeated, dup_output, all_viol_in_mb, ret,
                 bus_nw_exprs, nw_evals, builds>>
opt_vars == <<ptdf_options_dict, opt_baseMVA, opt_scalings, opt_before, opt_outcome,
              opt_warnings>>
schema_vars == <<schema_call, schema_input, schema_errors>>
uc_vars == <<instance, var_domain, uc_persistent, uc_calls, uc_updates>>
vars == <<PTDF_dict, branches, mb, persistent_solver, solver, PFV, viol_num,
          viols_tup, called, time_label, output, repeated, dup_output, all_viol_in_mb, ret,
          bus_nw_exprs, nw_evals, builds,
          ptdf_options_dict, opt_baseMVA, opt_scalings, opt_before, opt_outcome,
          opt_warnings, schema_call, schema_input, schema_errors,
          instance, var_domain, uc_persistent, uc_calls, uc_updates>>

----------------------------------------------------------------------------
(* check_violations *)

RECURSIVE DotRow(_, _, _)
\* sum over the first n columns of row[j] * vec[j]
DotRow(row, vec, n) ==
    IF n = 0 THEN 0 ELSE DotRow(row, vec, n - 1) + row[n - 1] * vec[n - 1]

\* np.dot(PTDFM, NWV)
Dot(M, NWV) == [i \in DOMAIN M |-> DotRow(M[i], NWV, Cardinality(DOMAIN NWV))]

RECURSIVE NonzeroUpTo(_, _)
\* the indices below n at which mask holds, ascending
NonzeroUpTo(mask, n) ==
    IF n = 0 THEN <<>>
    ELSE IF mask[n - 1] THEN Append(NonzeroUpTo(mask, n - 1), n - 1)
         ELSE NonzeroUpTo(mask, n - 1)

\* np.nonzero(mask)[0]
Nonzero(mask) == NonzeroUpTo(mask, Cardinality(DOMAIN mask))

GtViolLazy(flows, lazy) == Nonzero([i \in DOMAIN flows |-> flows[i] > lazy[i]])
LtViolLazy(flows, lazy) == Nonzero([i \in DOMAIN flows |-> flows[i] < 0 - lazy[i]])
\* a variant of GtViol that compares with >= instead of >
GtViol_inclusive(flows, enforced) ==
    Nonzero([i \in DOMAIN flows |-> flows[i] >= enforced[i]])

GtViol(flows, enforced) == Nonzero([i \in DOMAIN flows |-> flows[i] > enforced[i]])
\* a variant of LtViol that compares with the limit instead of its negation
LtViol_unsigned(flows, enforced) ==
    Nonzero([i \in DOMAIN flows |-> flows[i] < enforced[i]])

LtViol(flows, enforced) == Nonzero([i \in DOMAIN flows |-> flows[i] < 0 - enforced[i]])

RECURSIVE EvalUpTo(_, _)
\* the log of pe.value calls of the comprehension over the first n expressions
EvalUpTo(exprs, n) ==
    IF n = 0 THEN <<>> ELSE Append(EvalUpTo(exprs, n - 1), n - 1)

\* a variant of EvalInjections that evaluates every expression again for
\* each row of the product
EvalInjections_per_row(exprs, M) ==
    [NWV |-> [j \in DOMAIN exprs |-> exprs[j]],
     evals |-> EvalUpTo(exprs, Cardinality(DOMAIN exprs))
               \o EvalUpTo(exprs, Cardinality(DOMAIN exprs))]

\* NWV = np.array([pe.value(bus_nw_expr) for bus_nw_expr in bus_nw_exprs]);
\* the matrix M is not read here
EvalInjections(exprs, M) ==
    [NWV |-> [j \in DOMAIN exprs |-> exprs[j]],
     evals |-> EvalUpTo(exprs, Cardinality(DOMAIN exprs))]

\* the returned triple (PFV, viol_num, viols_tup), and the evaluation log
check_violations(dict, exprs) ==
    LET ev == EvalInjections(exprs, dict.PTDFM)
        flows == Dot(dict.PTDFM, ev.NWV)
        gt_viol_lazy == GtViolLazy(flows, dict.lazy_branch_limits)
        lt_viol_lazy == LtViolLazy(flows, dict.lazy_branch_limits)
        gt_viol == GtViol(flows, dict.enforced_branch_limits)
        lt_viol == LtViol(flows, dict.enforced_branch_limits)
    IN  [PFV |-> flows,
         evals |-> ev.evals,
         viol_num |-> Len(gt_viol) + Len(lt_viol),
         viols_tup |-> [gt_viol |-> gt_viol, lt_viol |-> lt_viol,
                        gt_viol_lazy |-> gt_viol_lazy, lt_viol_lazy |-> lt_viol_lazy]]

Range(s) == {s[k] : k \in DOMAIN s}

----------------------------------------------------------------------------
(* add_violations *)

Times == {None, Some(1)}

\* the "monitored branch exceeded its limit" diagnostic
_generate_flow_viol_warning(sense, bn, flow, limit, base, time) ==
    [kind |-> "WARNING: line is in the monitored set, but flow exceeds limit",
     sense |-> sense, bn |-> bn, time |-> time,
     flow |-> flow * base, limit |-> limit * base]

\* the "new branch added to the monitored set" diagnostic
_generate_flow_monitor_message(sense, bn, flow, limit, base, time) ==
    [kind |-> "Adding line to monitored set",
     sense |-> sense, bn |-> bn, time |-> time,
     flow |-> flow * base, limit |-> limit * base]

\* one entry of the call's event log
Event(ev, sense, bn, arg) == [ev |-> ev, sense |-> sense, bn |-> bn, arg |-> arg]

\* {bus : PTDFM[i,j] for j, bus in enumerate(buses_idx)}
PtdfRow(dict, i) ==
    [bus \in {dict.buses_idx[j] : j \in DOMAIN dict.buses_idx} |->
       dict.PTDFM[i][CHOOSE j \in DOMAIN dict.buses_idx : dict.buses_idx[j] = bus]]

\* libbranch.get_power_flow_expr_ptdf_approx: the linear expression over the
\* buses whose sensitivity survives the truncation (here: the non-zero ones)
get_power_flow_expr_ptdf_approx(bn, branch) ==
    [branch |-> bn,
     terms |-> {<<bus, branch.ptdf[1][bus]>> :
                  bus \in {b \in DOMAIN branch.ptdf[1] : branch.ptdf[1][b] # 0}}]

\* a variant of _iter_over_viol_set without the test of the slot
_iter_over_viol_set_rebuild(st, i) ==
    LET bn == st.PTDF_dict.branches_idx[i]
        branch == st.branches[bn]
        fill == branch.ptdf = None
        branch1 == IF fill THEN [branch EXCEPT !.ptdf = Some(PtdfRow(st.PTDF_dict, i))] ELSE branch
        expr == get_power_flow_expr_ptdf_approx(bn, branch1)
    IN  [st EXCEPT !.branches[bn] = branch1,
                   !.mb.pf[bn] = Some(expr),
                   !.output = (IF fill THEN Append(@, Event("set_ptdf", "", bn, None))
                               ELSE @) \o <<Event("set_pf", "", bn, expr)>>]

\* the part of _iter_over_viol_set run before it yields (i, bn, branch)
_iter_over_viol_set(st, i) ==
    LET bn == st.PTDF_dict.branches_idx[i]
        branch == st.branches[bn]
        fill == branch.ptdf = None
        branch1 == IF fill THEN [branch EXCEPT !.ptdf = Some(PtdfRow(st.PTDF_dict, i))] ELSE branch
        expr == get_power_flow_expr_ptdf_approx(bn, branch1)
    IN  IF st.mb.pf[bn] = None
        THEN [st EXCEPT !.branches[bn] = branch1,
                        !.mb.pf[bn] = Some(expr),
                        !.output = (IF fill THEN Append(@, Event("set_ptdf", "", bn, None))
                                    ELSE @) \o <<Event("set_pf", "", bn, expr)>>]
        ELSE st

\* a variant of LowerBody whose second branch is a plain else
LowerBody_readd(st0, i, flows, lt_viol, time) ==
    LET st == _iter_over_viol_set(st0, i)
        bn == st0.PTDF_dict.branches_idx[i]
        constr == st.mb.ineq_pf_branch_thermal_lb
        thermal_limit == st.branches[bn].rating_long_term
        new == <<Some(0 - thermal_limit), st.mb.pf[bn], None>>
    IN  IF constr[bn] # None /\ i \in Range(lt_viol)
        THEN [st EXCEPT !.output = Append(@, Event("print", "LB", bn,
                            _generate_flow_viol_warning("LB", bn, flows[i],
                                                        0 - thermal_limit, baseMVA, time))),
                        !.viol_in_constr = @ + 1]
        ELSE IF constr[bn] = constr[bn]
        THEN [st EXCEPT !.output = @ \o
                            <<Event("print", "LB", bn,
                                _generate_flow_monitor_message("LB", bn, flows[i],
                                                        0 - thermal_limit, baseMVA, time)),
                              Event("setitem", "LB", bn, new)>>
                            \o (IF st.persistent_solver
                                THEN <<Event("add_constraint", "LB", bn, new)>> ELSE <<>>),
                        !.mb.ineq_pf_branch_thermal_lb[bn] = Some(new),
                        !.solver = IF st.persistent_solver THEN Append(@, new) ELSE @]
        ELSE st

\* a variant of LowerBody that does not count the warned violations
LowerBody_uncounted(st0, i, flows, lt_viol, time) ==
    LET st == _iter_over_viol_set(st0, i)
        bn == st0.PTDF_dict.branches_idx[i]
        constr == st.mb.ineq_pf_branch_thermal_lb
        thermal_limit == st.branches[bn].rating_long_term
        new == <<Some(0 - thermal_limit), st.mb.pf[bn], None>>
    IN  IF constr[bn] # None /\ i \in Range(lt_viol)
        THEN [st EXCEPT !.output = Append(@, Event("print", "LB", bn,
                            _generate_flow_viol_warning("LB", bn, flows[i],
                                                        0 - thermal_limit, baseMVA, time))),
                        !.viol_in_constr = @]
        ELSE IF constr[bn] = None
        THEN [st EXCEPT !.output = @ \o
                            <<Event("print", "LB", bn,
                                _generate_flow_monitor_message("LB", bn, flows[i],
                                                        0 - thermal_limit, baseMVA, time)),
                              Event("setitem", "LB", bn, new)>>
                            \o (IF st.persistent_solver
                                THEN <<Event("add_constraint", "LB", bn, new)>> ELSE <<>>),
                        !.mb.ineq_pf_branch_thermal_lb[bn] = Some(new),
                        !.solver = IF st.persistent_solver THEN Append(@, new) ELSE @]
        ELSE st

\* a variant of LowerBody that calls the solver whatever its type
LowerBody_always_solver(st0, i, flows, lt_viol, time) ==
    LET st == _iter_over_viol_set(st0, i)
        bn == st0.PTDF_dict.branches_idx[i]
        constr == st.mb.ineq_pf_branch_thermal_lb
        thermal_limit == st.branches[bn].rating_long_term
        new == <<Some(0 - thermal_limit), st.mb.pf[bn], None>>
    IN  IF constr[bn] # None /\ i \in Range(lt_viol)
        THEN [st EXCEPT !.output = Append(@, Event("print", "LB", bn,
                            _generate_flow_viol_warning("LB", bn, flows[i],
                                                        0 - thermal_limit, baseMVA, time))),
                        !.viol_in_constr = @ + 1]
        ELSE IF constr[bn] = None
        THEN [st EXCEPT !.output = @ \o
                            <<Event("print", "LB", bn,
                                _generate_flow_monitor_message("LB", bn, flows[i],
                                                        0 - thermal_limit, baseMVA, time)),
                              Event("setitem", "LB", bn, new)>>
                            \o <<Event("add_constraint", "LB", bn, new)>>,
                        !.mb.ineq_pf_branch_thermal_lb[bn] = Some(new),
                        !.solver = Append(@, new)]
        ELSE st

\* the body of the loop over lt_viol_lazy
LowerBody(st0, i, flows, lt_viol, time) ==
    LET st == _iter_over_viol_set(st0, i)
        bn == st0.PTDF_dict.branches_idx[i]
        constr == st.mb.ineq_pf_branch_thermal_lb
        thermal_limit == st.branches[bn].rating_long_term
        new == <<Some(0 - thermal_limit), st.mb.pf[bn], None>>
    IN  IF constr[bn] # None /\ i \in Range(lt_viol)
        THEN [st EXCEPT !.output = Append(@, Event("print", "LB", bn,
                            _generate_flow_viol_warning("LB", bn, flows[i],
                                                        0 - thermal_limit, baseMVA, time))),
                        !.viol_in_constr = @ + 1]
        ELSE IF constr[bn] = None
        THEN [st EXCEPT !.output = @ \o
                            <<Event("print", "LB", bn,
                                _generate_flow_monitor_message("LB", bn, flows[i],
                                                        0 - thermal_limit, baseMVA, time)),
                              Event("setitem", "LB", bn, new)>>
                            \o (IF st.persistent_solver
                                THEN <<Event("add_constraint", "LB", bn, new)>> ELSE <<>>),
                        !.mb.ineq_pf_branch_thermal_lb[bn] = Some(new),
                        !.solver = IF st.persistent_solver THEN Append(@, new) ELSE @]
        ELSE st

\* a variant of UpperBody that rebuilds the container around the new entry
UpperBody_reset(st0, i, flows, gt_viol, time) ==
    LET st == _iter_over_viol_set(st0, i)
        bn == st0.PTDF_dict.branches_idx[i]
        constr == st.mb.ineq_pf_branch_thermal_ub
        thermal_limit == st.branches[bn].rating_long_term
        new == <<None, st.mb.pf[bn], Some(thermal_limit)>>
    IN  IF constr[bn] # None /\ i \in Range(gt_viol)
        THEN [st EXCEPT !.output = Append(@, Event("print", "UB", bn,
                            _generate_flow_viol_warning("UB", bn, flows[i],
                                                        thermal_limit, baseMVA, time))),
                        !.viol_in_constr = @ + 1]
        ELSE IF constr[bn] = None
        THEN [st EXCEPT !.output = @ \o
                            <<Event("print", "UB", bn,
                                _generate_flow_monitor_message("UB", bn, flows[i],
                                                        thermal_limit, baseMVA, time)),
                              Event("setitem", "UB", bn, new)>>
                            \o (IF st.persistent_solver
                                THEN <<Event("add_constraint", "UB", bn, new)>> ELSE <<>>),
                        !.mb.ineq_pf_branch_thermal_ub =
                            [b \in BranchNames |-> IF b = bn THEN Some(new) ELSE None],
                        !.solver = IF st.persistent_solver THEN Append(@, new) ELSE @]
        ELSE st

\* a variant of UpperBody that bounds the constraint at the lazy limit
UpperBody_lazy_bound(st0, i, flows, gt_viol, time) ==
    LET st == _iter_over_viol_set(st0, i)
        bn == st0.PTDF_dict.branches_idx[i]
        constr == st.mb.ineq_pf_branch_thermal_ub
        thermal_limit == st.branches[bn].rating_long_term
        new == <<None, st.mb.pf[bn], Some(st0.PTDF_dict.lazy_branch_limits[i])>>
    IN  IF constr[bn] # None /\ i \in Range(gt_viol)
        THEN [st EXCEPT !.output = Append(@, Event("print", "UB", bn,
                            _generate_flow_viol_warning("UB", bn, flows[i],
                                                        thermal_limit, baseMVA, time))),
                        !.viol_in_constr = @ + 1]
        ELSE IF constr[bn] = None
        THEN [st EXCEPT !.output = @ \o
                            <<Event("print", "UB", bn,
                                _generate_flow_monitor_message("UB", bn, flows[i],
                                                        thermal_limit, baseMVA, time)),
                              Event("setitem", "UB", bn, new)>>
                            \o (IF st.persistent_solver
                                THEN <<Event("add_constraint", "UB", bn, new)>> ELSE <<>>),
                        !.mb.ineq_pf_branch_thermal_ub[bn] = Some(new),
                        !.solver = IF st.persistent_solver THEN Append(@, new) ELSE @]
        ELSE st

\* a variant of UpperBody that adds first and then tests for the warning
UpperBody_add_then_warn(st0, i, flows, gt_viol, time) ==
    LET st == _iter_over_viol_set(st0, i)
        bn == st0.PTDF_dict.branches_idx[i]
        thermal_limit == st.branches[bn].rating_long_term
        new == <<None, st.mb.pf[bn], Some(thermal_limit)>>
        st1 == IF st.mb.ineq_pf_branch_thermal_ub[bn] = None
               THEN [st EXCEPT !.output = @ \o
                            <<Event("print", "UB", bn,
                                _generate_flow_monitor_message("UB", bn, flows[i],
                                                        thermal_limit, baseMVA, time)),
                              Event("setitem", "UB", bn, new)>>
                            \o (IF st.persistent_solver
                                THEN <<Event("add_constraint", "UB", bn, new)>> ELSE <<>>),
                        !.mb.ineq_pf_branch_thermal_ub[bn] = Some(new),
                        !.solver = IF st.persistent_solver THEN Append(@, new) ELSE @]
               ELSE st
    IN  IF i \in Range(gt_viol)
        THEN [st1 EXCEPT !.output = Append(@, Event("print", "UB", bn,
                            _generate_flow_viol_warning("UB", bn, flows[i],
                                                        thermal_limit, baseMVA, time))),
                         !.viol_in_constr = @ + 1]
        ELSE st1

\* the body of the loop over gt_viol_lazy
UpperBody(st0, i, flows, gt_viol, time) ==
    LET st == _iter_over_viol_set(st0, i)
        bn == st0.PTDF_dict.branches_idx[i]
        constr == st.mb.ineq_pf_branch_thermal_ub
        thermal_limit == st.branches[bn].rating_long_term
        new == <<None, st.mb.pf[bn], Some(thermal_limit)>>
    IN  IF constr[bn] # None /\ i \in Range(gt_viol)
        THEN [st EXCEPT !.output = Append(@, Event("print", "UB", bn,
                            _generate_flow_viol_warning("UB", bn, flows[i],
                                                        thermal_limit, baseMVA, time))),
                        !.viol_in_constr = @ + 1]
        ELSE IF constr[bn] = None
        THEN [st EXCEPT !.output = @ \o
                            <<Event("print", "UB", bn,
                                _generate_flow_monitor_message("UB", bn, flows[i],
                                                        thermal_limit, baseMVA, time)),
                              Event("setitem", "UB", bn, new)>>
                            \o (IF st.persistent_solver
                                THEN <<Event("add_constraint", "UB", bn, new)>> ELSE <<>>),
                        !.mb.ineq_pf_branch_thermal_ub[bn] = Some(new),
                        !.solver = IF st.persistent_solver THEN Append(@, new) ELSE @]
        ELSE st

RECURSIVE LowerLoop(_, _, _, _, _)
\* for i, bn, branch in _iter_over_viol_set(lt_viol_lazy): ...
LowerLoop(st, viol_set, flows, lt_viol, time) ==
    IF viol_set = <<>> THEN st
    ELSE LowerLoop(LowerBody(st, Head(viol_set), flows, lt_viol, time),
                   Tail(viol_set), flows, lt_viol, time)

RECURSIVE UpperLoop(_, _, _, _, _)
\* for i, bn, branch in _iter_over_viol_set(gt_viol_lazy): ...
UpperLoop(st, viol_set, flows, gt_viol, time) ==
    IF viol_set = <<>> THEN st
    ELSE UpperLoop(UpperBody(st, Head(viol_set), flows, gt_viol, time),
                   Tail(viol_set), flows, gt_viol, time)

\* a variant of add_violations that runs the upper-direction loop first
add_violations_upper_first(tup, flows, mb0, branches0, persistent, solver0, dict, time) ==
    LET st0 == [mb |-> mb0, branches |-> branches0, persistent_solver |-> persistent,
                solver |-> solver0, PTDF_dict |-> dict, output |-> <<>>,
                viol_in_constr |-> 0]
        st1 == UpperLoop(st0, tup.gt_viol_lazy, flows, tup.gt_viol, time)
        gt_viol_in_constr == st1.viol_in_constr
        st2 == LowerLoop([st1 EXCEPT !.viol_in_constr = 0],
                         tup.lt_viol_lazy, flows, tup.lt_viol, time)
        lt_viol_in_constr == st2.viol_in_constr
    IN  [mb |-> st2.mb, branches |-> st2.branches, solver |-> st2.solver,
         output |-> st2.output,
         all_viol_in_mb |-> (Len(tup.lt_viol) = lt_viol_in_constr)
                             /\ (Len(tup.gt_viol) = gt_viol_in_constr),
         ret |-> None]

\* the whole call: the state it leaves, its event log, the local all_viol_in_mb
\* and the value it returns (the function has no return statement)
add_violations(tup, flows, mb0, branches0, persistent, solver0, dict, time) ==
    LET st0 == [mb |-> mb0, branches |-> branches0, persistent_solver |-> persistent,
                solver |-> solver0, PTDF_dict |-> dict, output |-> <<>>,
                viol_in_constr |-> 0]
        st1 == LowerLoop(st0, tup.lt_viol_lazy, flows, tup.lt_viol, time)
        lt_viol_in_constr == st1.viol_in_constr
        st2 == UpperLoop([st1 EXCEPT !.viol_in_constr = 0],
                         tup.gt_viol_lazy, flows, tup.gt_viol, time)
        gt_viol_in_constr == st2.viol_in_constr
    IN  [mb |-> st2.mb, branches |-> st2.branches, solver |-> st2.solver,
         output |-> st2.output,
         all_viol_in_mb |-> (Len(tup.lt_viol) = lt_viol_in_constr)
                             /\ (Len(tup.gt_viol) = gt_viol_in_constr),
         ret |-> None]

----------------------------------------------------------------------------
(* The tolerance options *)

\* Tolerances are exact rationals [n, d] with d > 0.  The flow tolerances and
\* rel_ptdf_tol count in units of 1e-6, abs_ptdf_tol in units of 1e-12 (it is
\* only ever compared with 1e-12).  Float rounding is not modelled.
Rat(n, d) == [n |-> n, d |-> d]
RatLess(a, b) == a.n * b.d < b.n * a.d
RatDiv(a, k) == Rat(a.n, a.d * k)
RatMul(a, k) == Rat(a.n * k, a.d)

OptionKeys == {"rel_ptdf_tol", "abs_ptdf_tol", "abs_flow_tol", "rel_flow_tol",
               "lazy_rel_flow_tol"}

\* a key of the caller's dict that is none of the five recognized ones
OtherKey == "max_violations_per_iteration"

\* the defaults of populate_default_ptdf_options
DefaultOption(key) ==
    CASE key = "rel_ptdf_tol" -> Rat(1, 1)
      [] key = "abs_ptdf_tol" -> Rat(100, 1)
      [] key = "abs_flow_tol" -> Rat(1000, 1)
      [] key = "rel_flow_tol" -> Rat(10, 1)
      [] key = "lazy_rel_flow_tol" -> Rat(0 - 150000, 1)

\* the values a caller may supply for a key, besides leaving it out
SuppliedOptions(key) ==
    CASE key = "rel_ptdf_tol" -> {Rat(1, 1), Rat(1, 10), Rat(1000, 1)}
      [] key = "abs_ptdf_tol" -> {Rat(100, 1), Rat(1, 10)}
      [] key = "abs_flow_tol" -> {Rat(1000, 1), Rat(5000, 1), Rat(5, 1)}
      [] key = "rel_flow_tol" -> {Rat(10, 1)}
      [] key = "lazy_rel_flow_tol" -> {Rat(0 - 150000, 1), Rat(1000, 1), Rat(500, 1)}
      [] key = OtherKey -> {Rat(7, 1)}

BaseMVAs == {1, 10}

\* how often one options dict is scaled in a run
MaxScalings == 1

\* a variant of populate_default_ptdf_options that assigns the five defaults
\* without the membership tests
populate_default_ptdf_options_overwrite(dict) ==
    [key \in DOMAIN dict |->
        IF key \in OptionKeys THEN Some(DefaultOption(key)) ELSE dict[key]]

\* if 'key' not in ptdf_options_dict: ptdf_options_dict['key'] = default
populate_default_ptdf_options(dict) ==
    [key \in DOMAIN dict |->
        IF key \in OptionKeys /\ dict[key] = None
        THEN Some(DefaultOption(key)) ELSE dict[key]]

\* the raise statement of line 34: its message is formatted first, and the
\* format arguments name lazy_flow_tol, which is bound nowhere in the module
RaiseConfigError == "NameError"

\* the advisory warnings of lines 36-43
OptionWarnings(abs_flow_tol, rel_ptdf_tol, abs_ptdf_tol) ==
    {w \in {"abs_flow_tol below solver threshold", "abs_flow_tol below 10 rel_ptdf_tol",
            "rel_ptdf_tol low", "abs_ptdf_tol low"} :
        \/ w = "abs_flow_tol below solver threshold" /\ RatLess(abs_flow_tol, Rat(1, 1))
        \/ w = "abs_flow_tol below 10 rel_ptdf_tol"
             /\ RatLess(abs_flow_tol, RatMul(rel_ptdf_tol, 10))
        \/ w = "rel_ptdf_tol low" /\ RatLess(rel_ptdf_tol, Rat(1, 1))
        \/ w = "abs_ptdf_tol low" /\ RatLess(abs_ptdf_tol, Rat(1, 1))}

\* the dict the call leaves, how it ended and the warnings it printed
check_and_scale_ptdf_options(dict, base) ==
    IF dict["abs_ptdf_tol"] = None
    THEN [dict |-> dict, outcome |-> "KeyError", warnings |-> {}]
    ELSE LET d1 == [dict EXCEPT !["abs_ptdf_tol"] = Some(RatDiv(@[1], base))]
         IN  IF d1["abs_flow_tol"] = None
             THEN [dict |-> d1, outcome |-> "KeyError", warnings |-> {}]
             ELSE LET d2 == [d1 EXCEPT !["abs_flow_tol"] = Some(RatDiv(@[1], base))]
                  IN  IF \/ d2["rel_flow_tol"] = None
                         \/ d2["rel_ptdf_tol"] = None
                         \/ d2["lazy_rel_flow_tol"] = None
                      THEN [dict |-> d2, outcome |-> "KeyError", warnings |-> {}]
                      ELSE IF RatLess(d2["abs_flow_tol"][1], d2["lazy_rel_flow_tol"][1])
                      THEN [dict |-> d2, outcome |-> RaiseConfigError, warnings |-> {}]
                      ELSE [dict |-> d2, outcome |-> "ok",
                            warnings |-> OptionWarnings(d2["abs_flow_tol"][1],
                                                        d2["rel_ptdf_tol"][1],
                                                        d2["abs_ptdf_tol"][1])]

----------------------------------------------------------------------------
(* The cutting-plane engine as a state machine *)

\* the diagnostics among the events of a call
Prints(out) == {out[k].arg : k \in {n \in DOMAIN out : out[n].ev = "print"}}

\* how many events of one kind a call logged for one branch
NumEvents(out, ev, bn) ==
    Cardinality({k \in DOMAIN out : out[k].ev = ev /\ out[k].bn = bn})

EmptyTup == [gt_viol |-> <<>>, lt_viol |-> <<>>, gt_viol_lazy |-> <<>>, lt_viol_lazy |-> <<>>]

EngineInit ==
    /\ PTDF_dict \in [PTDFM : {PTDFM}, buses_idx : {buses_idx},
                      branches_idx : {branches_idx},
                      enforced_branch_limits : [BranchIdx -> LimitVals],
                      lazy_branch_limits : [BranchIdx -> LimitVals]]
    /\ branches = [bn \in BranchNames |-> [rating_long_term |-> RatingOf(bn), ptdf |-> None]]
    /\ mb = [pf |-> [bn \in BranchNames |-> None],
             ineq_pf_branch_thermal_lb |-> [bn \in BranchNames |-> None],
             ineq_pf_branch_thermal_ub |-> [bn \in BranchNames |-> None]]
    /\ persistent_solver \in BOOLEAN
    /\ solver = <<>>
    /\ PFV = [i \in BranchIdx |-> 0]
    /\ viol_num = 0
    /\ viols_tup = EmptyTup
    /\ called = FALSE
    /\ time_label \in Times
    /\ output = <<>>
    /\ repeated = FALSE
    /\ dup_output = {}
    /\ all_viol_in_mb = TRUE
    /\ ret = None
    /\ bus_nw_exprs = [j \in BusIdx |-> 0]
    /\ nw_evals = <<>>
    /\ builds = [bn \in BranchNames |-> [pf |-> 0, ptdf |-> 0]]

\* PFV, viol_num, viols_tup = check_violations(PTDF_dict, bus_nw_exprs)
CheckOn(exprs) ==
    LET r == check_violations(PTDF_dict, exprs)
    IN  /\ bus_nw_exprs' = exprs
        /\ nw_evals' = r.evals
        /\ PFV' = r.PFV
        /\ viol_num' = r.viol_num
        /\ viols_tup' = r.viols_tup
        /\ output' = <<>>
        /\ repeated' = FALSE
        /\ dup_output' = {}
        /\ all_viol_in_mb' = TRUE
        /\ ret' = None
        /\ called' = FALSE
        /\ UNCHANGED <<PTDF_dict, branches, mb, persistent_solver, solver, time_label,
                       builds>>
        /\ UNCHANGED <<opt_vars, schema_vars, uc_vars>>

\* a check on any injections of the grid
CheckViolations == \E exprs \in [BusIdx -> Injections] : CheckOn(exprs)

\* add_violations(viols_tup, PFV, mb, md, solver, ...) on the last classification
AddViolations ==
    LET r == add_violations(viols_tup, PFV, mb, branches, persistent_solver, solver,
                            PTDF_dict, time_label)
    IN  /\ mb' = r.mb
        /\ builds' = [bn \in DOMAIN builds |->
                        [pf |-> builds[bn].pf + NumEvents(r.output, "set_pf", bn),
                         ptdf |-> builds[bn].ptdf + NumEvents(r.output, "set_ptdf", bn)]]
        /\ branches' = r.branches
        /\ solver' = r.solver
        /\ output' = r.output
        /\ repeated' = called
        /\ dup_output' = IF called THEN Prints(r.output) \cap Prints(output) ELSE {}
        /\ called' = TRUE
        /\ all_viol_in_mb' = r.all_viol_in_mb
        /\ ret' = r.ret
        /\ UNCHANGED <<PTDF_dict, persistent_solver, PFV, viol_num, viols_tup, time_label,
                       bus_nw_exprs, nw_evals>>
        /\ UNCHANGED <<opt_vars, schema_vars, uc_vars>>

\* no option call is under way
OptIdle ==
    /\ ptdf_options_dict = [key \in OptionKeys |-> None]
    /\ opt_baseMVA = 1
    /\ opt_scalings = 0
    /\ opt_before = [key \in OptionKeys |-> None]
    /\ opt_outcome = "none"
    /\ opt_warnings = {}

\* no schema validator has run
SchemaIdle ==
    /\ schema_call = "none"
    /\ schema_input = None
    /\ schema_errors = {}

\* no unit-commitment instance is at hand
UcIdle ==
    /\ instance = None
    /\ var_domain = <<>>
    /\ uc_persistent = FALSE
    /\ uc_calls = <<>>
    /\ uc_updates = <<>>

Init == EngineInit /\ OptIdle /\ SchemaIdle /\ UcIdle

Next == CheckViolations \/ AddViolations

Spec == Init /\ [][Next]_vars

----------------------------------------------------------------------------
(* The single-branch example *)

\* buses 201 and 202, branch 101 with sensitivity row [1, -1], enforced limit
\* 100 and lazy limit 85
ScenarioDict ==
    [PTDFM |-> [i \in {0} |-> [j \in {0, 1} |-> IF j = 0 THEN 1 ELSE 0 - 1]],
     buses_idx |-> [j \in {0, 1} |-> 201 + j],
     branches_idx |-> [i \in {0} |-> 101],
     enforced_branch_limits |-> [i \in {0} |-> 100],
     lazy_branch_limits |-> [i \in {0} |-> 85]]

ScenarioBranch == ScenarioDict.branches_idx[0]

\* the injection vector [k, -k]
Balanced(k) == [j \in {0, 1} |-> IF j = 0 THEN k ELSE 0 - k]

\* the injection levels of the example, on both sides of each limit
ScenarioLevels == {0 - 150, 0 - 60, 0 - 50, 0 - 45, 0 - 40, 0, 40, 45, 50, 60, 150}

\* the example's bundle, its branch of rating 100 and an empty model block
ScenarioInit ==
    /\ PTDF_dict = ScenarioDict
    /\ branches = [bn \in {ScenarioBranch} |-> [rating_long_term |-> 100, ptdf |-> None]]
    /\ mb = [pf |-> [bn \in {ScenarioBranch} |-> None],
             ineq_pf_branch_thermal_lb |-> [bn \in {ScenarioBranch} |-> None],
             ineq_pf_branch_thermal_ub |-> [bn \in {ScenarioBranch} |-> None]]
    /\ persistent_solver \in BOOLEAN
    /\ solver = <<>>
    /\ PFV = [i \in {0} |-> 0]
    /\ viol_num = 0
    /\ viols_tup = EmptyTup
    /\ called = FALSE
    /\ time_label \in Times
    /\ output = <<>>
    /\ repeated = FALSE
    /\ dup_output = {}
    /\ all_viol_in_mb = TRUE
    /\ ret = None
    /\ bus_nw_exprs = Balanced(0)
    /\ nw_evals = <<>>
    /\ builds = [bn \in {ScenarioBranch} |-> [pf |-> 0, ptdf |-> 0]]
    /\ OptIdle /\ SchemaIdle /\ UcIdle

\* a check on balanced injections of the example
ScenarioCheck == \E k \in ScenarioLevels : CheckOn(Balanced(k))

ScenarioNext == ScenarioCheck \/ AddViolations

SpecScenario == ScenarioInit /\ [][ScenarioNext]_vars

----------------------------------------------------------------------------
(* The option helpers as a state machine *)

\* an engine on which nothing is called
EngineIdle ==
    /\ EngineInit
    /\ PTDF_dict.enforced_branch_limits = [i \in BranchIdx |-> 1]
    /\ PTDF_dict.lazy_branch_limits = [i \in BranchIdx |-> 1]
    /\ persistent_solver = FALSE
    /\ time_label = None

OptInit ==
    /\ EngineIdle /\ SchemaIdle /\ UcIdle
    /\ ptdf_options_dict \in
         {f \in [OptionKeys \cup {OtherKey} ->
                    {None} \cup UNION {{Some(v) : v \in SuppliedOptions(key)} :
                                         key \in OptionKeys \cup {OtherKey}}] :
            \A key \in DOMAIN f : f[key] = None \/ f[key][1] \in SuppliedOptions(key)}
    /\ opt_baseMVA = 1
    /\ opt_scalings = 0
    /\ opt_before = ptdf_options_dict
    /\ opt_outcome = "none"
    /\ opt_warnings = {}

\* populate_default_ptdf_options(ptdf_options_dict)
PopulateDefaults ==
    /\ ptdf_options_dict' = populate_default_ptdf_options(ptdf_options_dict)
    /\ opt_before' = ptdf_options_dict
    /\ opt_outcome' = "populated"
    /\ opt_warnings' = {}
    /\ UNCHANGED <<opt_baseMVA, opt_scalings>>
    /\ UNCHANGED <<engine_vars, schema_vars, uc_vars>>

\* check_and_scale_ptdf_options(ptdf_options_dict, baseMVA)
CheckAndScale ==
    /\ opt_scalings < MaxScalings
    /\ \E base \in BaseMVAs :
         LET r == check_and_scale_ptdf_options(ptdf_options_dict, base)
         IN  /\ ptdf_options_dict' = r.dict
             /\ opt_before' = ptdf_options_dict
             /\ opt_outcome' = r.outcome
             /\ opt_warnings' = r.warnings
             /\ opt_baseMVA' = base
             /\ opt_scalings' = opt_scalings + 1
    /\ UNCHANGED <<engine_vars, schema_vars, uc_vars>>

OptNext == PopulateDefaults \/ CheckAndScale

SpecOpt == OptInit /\ [][OptNext]_vars

----------------------------------------------------------------------------
(* The schema validators of schema_demo.py *)

\* the NumericQuantity fields of SystemDataModel this model follows
RequiredFields == {"time_period_length_minutes", "baseMVA"}
CostFields == {"load_mismatch_cost", "reserve_shortfall_cost", "total_cost"}
SystemFields == RequiredFields \cup CostFields

\* the units strings an input may carry
UnitsChoices == {"$", "MVA", "min", "#"}

\* a quantity as given in the input: its units key may be missing
Quantities == {[units |-> None]} \cup {[units |-> Some(u)] : u \in UnitsChoices}

\* the system part of an input: field -> None (left out) or Some(quantity)
SystemInputs == [SystemFields -> {None} \cup {Some(q) : q \in Quantities}]

\* one error of a validation: the field it is located at and its type
SchemaError(loc, type) == [loc |-> loc, type |-> type]

\* NumericQuantity: units is a required str
NumericQuantity(q) == IF q.units = None THEN {"value_error.missing"} ELSE {}

\* if v.units != 'min': raise ValueError
time_period_length_minutes_units(v) == v.units[1] # "min"

\* a variant of cost_units that expects the units of baseMVA
cost_units_mva(v) == v.units[1] # "MVA"

\* if v.units != '$': raise ValueError
cost_units(v) == v.units[1] # "$"

\* if v.units != 'MVA': raise ValueError
baseMVA_units(v) == v.units[1] # "MVA"

\* the validator registered for a field raises on the parsed quantity
FieldValidatorRaises(field, v) ==
    CASE field = "time_period_length_minutes" -> time_period_length_minutes_units(v)
      [] field = "baseMVA" -> baseMVA_units(v)
      [] field \in CostFields -> cost_units(v)

\* SystemDataModel(**system): a required field left out is an error, a
\* supplied quantity is parsed first and, once parsed, handed to its validator
SystemDataModel(system) ==
    {SchemaError(f, "value_error.missing") :
        f \in {g \in RequiredFields : system[g] = None}}
    \cup {SchemaError(f, "value_error.missing") :
        f \in {g \in SystemFields :
                 system[g] # None /\ NumericQuantity(system[g][1]) # {}}}
    \cup {SchemaError(f, "value_error") :
        f \in {g \in SystemFields :
                 /\ system[g] # None
                 /\ NumericQuantity(system[g][1]) = {}
                 /\ FieldValidatorRaises(g, system[g][1])}}

\* the largest integer given as a commitment status
MaxCommit == 2

\* the longest time series given as a commitment status
MaxSeriesLen == 2

\* the values of fixed_commitment after parsing Union[int, None, TimeSeries]:
\* None, an int, or a TimeSeries whose values dict may have been left out
CommitmentInputs ==
    {[type |-> "None"]}
    \cup {[type |-> "int", value |-> n] : n \in 0 .. MaxCommit}
    \cup {[type |-> "TimeSeries", values |-> None]}
    \cup {[type |-> "TimeSeries", values |-> Some(q)] :
             q \in UNION {[1 .. n -> 0 .. MaxCommit] : n \in 0 .. MaxSeriesLen}}

\* isinstance(v, int)
IsInstanceInt(v) == v.type = "int"

\* the truth value of v in 'if v:'
Truthy(v) ==
    CASE v.type = "None" -> FALSE
      [] v.type = "int" -> v.value # 0
      [] v.type = "TimeSeries" -> TRUE

\* a bool where an int is expected: True is 1 and False is 0
BoolAsInt(b) == IF b THEN 1 ELSE 0

\* ThermalGenerator.fixed_commitment_binary_value: how the validator ends.
\* 'isinstance(v, int) not in {0, 1}' tests the bool that isinstance returns
fixed_commitment_binary_value(v) ==
    IF Truthy(v)
    THEN IF BoolAsInt(IsInstanceInt(v)) \notin {0, 1}
         THEN "ValueError"
         ELSE IF v.type = "TimeSeries"
         THEN IF v.values = None
              THEN "AttributeError"
              ELSE IF \E k \in DOMAIN v.values[1] : v.values[1][k] \notin {0, 1}
              THEN "ValueError"
              ELSE "ok"
         ELSE "ok"
    ELSE "ok"

SchemaInit == EngineIdle /\ OptIdle /\ SchemaIdle /\ UcIdle

\* UnitCommitmentDataModel(elements=..., system=system) on valid elements;
\* a behaviour constructs one object
ValidateSystem ==
    /\ schema_call = "none"
    /\ \E system \in SystemInputs :
         /\ schema_input' = system
         /\ schema_errors' = SystemDataModel(system)
    /\ schema_call' = "system"
    /\ UNCHANGED <<engine_vars, opt_vars, uc_vars>>

\* ThermalGenerator(..., fixed_commitment=v)
ValidateFixedCommitment ==
    /\ schema_call = "none"
    /\ \E v \in CommitmentInputs :
         LET r == fixed_commitment_binary_value(v)
         IN  /\ schema_input' = v
             /\ schema_errors' = IF r = "ok" THEN {}
                                  ELSE {SchemaError("fixed_commitment", r)}
    /\ schema_call' = "fixed_commitment"
    /\ UNCHANGED <<engine_vars, opt_vars, uc_vars>>

SchemaNext == ValidateSystem \/ ValidateFixedCommitment

SpecSchema == SchemaInit /\ [][SchemaNext]_vars

----------------------------------------------------------------------------
(* The binary relaxer and enforcer *)

\* time periods of an instance
NumPeriods == 2

\* relaxer and enforcer calls in a run
MaxCalls == 2

\* the formulations _binary_var_generator tells apart, and one it does not name
StatusVars == {"CA_1bin_vars", "garver_3bin_vars", "garver_2bin_vars",
               "garver_3bin_relaxed_stop_vars", "ALS_state_transition_vars",
               "other_status_vars"}
StartupCosts == {"KOW_startup_costs", "MLR_startup_costs", "MLR_startup_costs2",
                 "other_startup_costs"}

\* the instances: formulation names, whether the attribute regulation
\* exists, and the index sets in their iteration order
Instances ==
    [status_vars : StatusVars, startup_costs : StartupCosts, regulation : BOOLEAN,
     TimePeriods : {[k \in 1 .. NumPeriods |-> k]},
     ThermalGenerators : {<<"g1", "g2">>},
     AGC_Generators : {<<"g2">>},
     Storage : {<<"s1">>},
     StartupIndicator_domain : {<<<<"g1", 1, 2>>>>},
     StartupCostsIndexSet : {<<<<"g1", 1, 2>>, <<"g2", 1, 2>>>>}]

\* instance.name[index]
VarRef(name, index) == [name |-> name, index |-> index]

RECURSIVE Concat(_)
\* the items of a sequence of sequences, in order
Concat(seqs) == IF seqs = <<>> THEN <<>> ELSE Head(seqs) \o Concat(Tail(seqs))

\* the yields of the body of 'for g in instance.ThermalGenerators'
ThermalVars(inst, g, t) ==
    (IF inst.status_vars \in {"CA_1bin_vars", "garver_3bin_vars", "garver_2bin_vars",
                              "garver_3bin_relaxed_stop_vars"}
     THEN <<VarRef("UnitOn", <<g, t>>)>> ELSE <<>>)
    \o (IF inst.status_vars \in {"ALS_state_transition_vars"}
        THEN <<VarRef("UnitStayOn", <<g, t>>)>> ELSE <<>>)
    \o (IF inst.status_vars \in {"garver_3bin_vars", "garver_2bin_vars",
                                 "garver_3bin_relaxed_stop_vars",
                                 "ALS_state_transition_vars"}
        THEN <<VarRef("UnitStart", <<g, t>>)>> ELSE <<>>)
    \o (IF inst.status_vars \in {"garver_3bin_vars", "ALS_state_transition_vars"}
        THEN <<VarRef("UnitStop", <<g, t>>)>> ELSE <<>>)

\* the yields of the body of 'for t in instance.TimePeriods'
PeriodVars(inst, t) ==
    Concat([k \in DOMAIN inst.ThermalGenerators |->
              ThermalVars(inst, inst.ThermalGenerators[k], t)])
    \o (IF inst.regulation
        THEN [k \in DOMAIN inst.AGC_Generators |->
                VarRef("RegulationOn", <<inst.AGC_Generators[k], t>>)]
        ELSE <<>>)
    \o [k \in DOMAIN inst.Storage |-> VarRef("OutputStorage", <<inst.Storage[k], t>>)]

\* the variables the generator yields, in order
_binary_var_generator(inst) ==
    Concat([k \in DOMAIN inst.TimePeriods |-> PeriodVars(inst, inst.TimePeriods[k])])
    \o (IF inst.startup_costs \in {"KOW_startup_costs"}
        THEN [k \in DOMAIN inst.StartupIndicator_domain |->
                VarRef("StartupIndicator", inst.StartupIndicator_domain[k])]
        ELSE IF inst.startup_costs \in {"MLR_startup_costs", "MLR_startup_costs2"}
        THEN [k \in DOMAIN inst.StartupCostsIndexSet |->
                VarRef("delta", inst.StartupCostsIndexSet[k])]
        ELSE <<>>)

\* every variable an instance of any formulation may hold
AllVars(inst) ==
    UNION {Range(_binary_var_generator([inst EXCEPT !.status_vars = sv,
                                                    !.startup_costs = sc,
                                                    !.regulation = TRUE])) :
             sv \in StatusVars, sc \in StartupCosts}

RECURSIVE SetDomains(_, _, _, _)
\* for var in vars: var.domain = domain; if persistent_solver: solver.update_var(var)
SetDomains(st, vars_seq, domain, persistent) ==
    IF vars_seq = <<>> THEN st
    ELSE SetDomains([var_domain |-> [st.var_domain EXCEPT ![Head(vars_seq)] = domain],
                     updates |-> IF persistent THEN Append(st.updates, Head(vars_seq))
                                 ELSE st.updates],
                    Tail(vars_seq), domain, persistent)

\* uc_instance_binary_relaxer(model, solver)
uc_instance_binary_relaxer(inst, domains, persistent) ==
    SetDomains([var_domain |-> domains, updates |-> <<>>],
               _binary_var_generator(inst), "UnitInterval", persistent)

\* a variant of uc_instance_binary_enforcer that leaves the solver alone
uc_instance_binary_enforcer_silent(inst, domains, persistent) ==
    SetDomains([var_domain |-> domains, updates |-> <<>>],
               _binary_var_generator(inst), "Binary", FALSE)

\* uc_instance_binary_enforcer(model, solver)
uc_instance_binary_enforcer(inst, domains, persistent) ==
    SetDomains([var_domain |-> domains, updates |-> <<>>],
               _binary_var_generator(inst), "Binary", persistent)

\* an instance as built: every variable of the list is binary
RelaxInit ==
    /\ EngineIdle /\ OptIdle /\ SchemaIdle
    /\ instance \in Instances
    /\ var_domain = [v \in AllVars(instance) |-> "Binary"]
    /\ uc_persistent \in BOOLEAN
    /\ uc_calls = <<>>
    /\ uc_updates = <<>>

Relax ==
    /\ Len(uc_calls) < MaxCalls
    /\ LET r == uc_instance_binary_relaxer(instance, var_domain, uc_persistent)
       IN  /\ var_domain' = r.var_domain
           /\ uc_updates' = r.updates
    /\ uc_calls' = Append(uc_calls, "relax")
    /\ UNCHANGED <<instance, uc_persistent>>
    /\ UNCHANGED <<engine_vars, opt_vars, schema_vars>>

Enforce ==
    /\ Len(uc_calls) < MaxCalls
    /\ LET r == uc_instance_binary_enforcer(instance, var_domain, uc_persistent)
       IN  /\ var_domain' = r.var_domain
           /\ uc_updates' = r.updates
    /\ uc_calls' = Append(uc_calls, "enforce")
    /\ UNCHANGED <<instance, uc_persistent>>
    /\ UNCHANGED <<engine_vars, opt_vars, schema_vars>>

RelaxNext == Relax \/ Enforce

SpecRelax == RelaxInit /\ [][RelaxNext]_vars

----------------------------------------------------------------------------
(* Properties of the engine *)

\* the row of a branch name in the PTDF bundle
RowOf(bn) == CHOOSE i \in BranchIdx : branches_idx[i] = bn

\* the positions of the last call's events of one kind for one branch and sense
EventsAt(ev, sense, bn) ==
    {k \in DOMAIN output : output[k].ev = ev /\ output[k].sense = sense /\ output[k].bn = bn}

\* the positions of the last call's diagnostics of one kind for one branch and sense
DiagsAt(kind, sense, bn) ==
    {k \in EventsAt("print", sense, bn) : output[k].arg.kind = kind}

MonitorKind == "Adding line to monitored set"
WarningKind == "WARNING: line is in the monitored set, but flow exceeds limit"

\* the constraint container of a direction
Container(sense) ==
    IF sense = "LB" THEN mb.ineq_pf_branch_thermal_lb ELSE mb.ineq_pf_branch_thermal_ub

\* the last call created the constraint of this pair
CreatedNow(sense, bn) == EventsAt("setitem", sense, bn) # {}

\* the constraint of this pair was in the model before the last call
ExistedBefore(sense, bn) == Container(sense)[bn] # None /\ ~CreatedNow(sense, bn)

TrueViol(sense) == IF sense = "LB" THEN viols_tup.lt_viol ELSE viols_tup.gt_viol
LazyViol(sense) == IF sense = "LB" THEN viols_tup.lt_viol_lazy ELSE viols_tup.gt_viol_lazy

Senses == {"LB", "UB"}

\* every enforced limit is at least the lazy limit of its branch
LimitsNested ==
    \A i \in BranchIdx :
        PTDF_dict.lazy_branch_limits[i] <= PTDF_dict.enforced_branch_limits[i]

\* every true violation of the last classification is a lazy violation too
TupleNested ==
    \A sense \in Senses : Range(TrueViol(sense)) \subseteq Range(LazyViol(sense))

\* C1 as stated: for every flow vector and every pair of limit arrays, each
\* true violation is also a lazy violation in the same direction.
C1_Original == TupleNested

\* C1 as amended: when every lazy limit is at most the enforced limit of its
\* branch, each true violation is also a lazy violation in the same direction.
C1_SubsetWhenNested == LimitsNested => TupleNested

\* C1 case: nested limits, a true violation and a branch that is only lazy
C1_Witness ==
    /\ LimitsNested
    /\ \E sense \in Senses :
        /\ TrueViol(sense) # <<>>
        /\ Len(LazyViol(sense)) > Len(TrueViol(sense))

\* C2 as stated: a call repeated on the same tuple and model adds no
\* constraint, makes no solver call and repeats no diagnostic of the call
\* before it.
C2_Original ==
    repeated =>
        /\ \A k \in DOMAIN output : output[k].ev \notin {"setitem", "add_constraint"}
        /\ dup_output = {}

\* C2 as amended: a call repeated on the same tuple and model leaves both
\* constraint containers, the flow expressions and the solver as they were and
\* prints no "Adding line" message; it prints exactly one "flow exceeds limit"
\* warning for each branch that is both a lazy and a true violation of a
\* direction, also when the call before it printed the same warning.
C2_Idempotent ==
    [][(called /\ called') =>
         /\ mb' = mb
         /\ solver' = solver
         /\ branches' = branches
         /\ \A k \in DOMAIN output' :
              /\ output'[k].ev = "print"
              /\ output'[k].arg.kind = WarningKind
              /\ RowOf(output'[k].bn) \in
                   Range(TrueViol(output'[k].sense)) \cap Range(LazyViol(output'[k].sense))
         /\ \A sense \in Senses :
              \A i \in Range(TrueViol(sense)) \cap Range(LazyViol(sense)) :
                Cardinality({k \in DOMAIN output' : output'[k].sense = sense
                                /\ output'[k].bn = branches_idx[i]}) = 1]_vars

\* C2 case: a repeated call on a tuple with a true violation, after a call
\* that added a constraint for it
C2_Witness ==
    /\ repeated
    /\ \E sense \in Senses : \E bn \in BranchNames :
         /\ DiagsAt(WarningKind, sense, bn) # {}
         /\ bn \in {solver[k][2][1].branch : k \in DOMAIN solver}

\* C3: a (branch, direction) pair present in a constraint container stays
\* present, with the same constraint, after every later call.
C3_Monotone ==
    [][\A bn \in BranchNames :
         /\ mb.ineq_pf_branch_thermal_lb[bn] # None =>
              mb'.ineq_pf_branch_thermal_lb[bn] = mb.ineq_pf_branch_thermal_lb[bn]
         /\ mb.ineq_pf_branch_thermal_ub[bn] # None =>
              mb'.ineq_pf_branch_thermal_ub[bn] = mb.ineq_pf_branch_thermal_ub[bn]]_vars

\* C3 case: a call adds a constraint while another pair is already present
C3_Witness ==
    \E sense \in Senses : \E bn \in BranchNames :
        /\ CreatedNow(sense, bn)
        /\ \E s2 \in Senses : \E b2 \in BranchNames : ExistedBefore(s2, b2)

\* C4: every materialized constraint is bounded at the branch's
\* rating_long_term: (-rating, flow expression, None) in the lower container and
\* (None, flow expression, +rating) in the upper one, and the same tuple is what
\* the call stored, whether the branch was a true or only a lazy violation.
C4_TrueRating ==
    /\ \A bn \in BranchNames :
         /\ mb.ineq_pf_branch_thermal_lb[bn] # None =>
              /\ mb.pf[bn] # None
              /\ mb.ineq_pf_branch_thermal_lb[bn] =
                   Some(<<Some(0 - branches[bn].rating_long_term), mb.pf[bn], None>>)
         /\ mb.ineq_pf_branch_thermal_ub[bn] # None =>
              /\ mb.pf[bn] # None
              /\ mb.ineq_pf_branch_thermal_ub[bn] =
                   Some(<<None, mb.pf[bn], Some(branches[bn].rating_long_term)>>)
    /\ \A k \in DOMAIN output :
         output[k].ev = "setitem" => Some(output[k].arg) = Container(output[k].sense)[output[k].bn]

\* C4 case: a constraint created for a branch that is only a lazy violation,
\* and one created for a true violation, in one call
C4_Witness ==
    /\ \E sense \in Senses : \E bn \in BranchNames :
         CreatedNow(sense, bn) /\ RowOf(bn) \notin Range(TrueViol(sense))
    /\ \E sense \in Senses : \E bn \in BranchNames :
         CreatedNow(sense, bn) /\ RowOf(bn) \in Range(TrueViol(sense))

\* every true violation of the last tuple had its constraint before the call
AllCoveredBefore ==
    \A sense \in Senses : \A i \in Range(TrueViol(sense)) :
        ExistedBefore(sense, branches_idx[i])

\* C5 as stated: add_violations returns to its caller the boolean that is true
\* exactly when every true violation of both directions had its constraint in
\* the model before the call.
C5_ReturnsAllCovered == called => ret = Some(AllCoveredBefore)

\* C6 as stated: when the computed all_viol_in_mb is false, the call added at
\* least one constraint.
C6_Original ==
    (called /\ ~all_viol_in_mb) =>
        \E k \in DOMAIN output : output[k].ev = "setitem"

\* C6 as amended: when every true violation of the tuple is also a lazy
\* violation of the same direction (as it is when no lazy limit exceeds the
\* enforced limit) and the computed all_viol_in_mb is false, the call added at
\* least one constraint.
C6_FalseMeansAdded ==
    (called /\ TupleNested /\ ~all_viol_in_mb) =>
        \E k \in DOMAIN output : output[k].ev = "setitem"

\* C6 case: a first call on a nested tuple with a true violation adds its
\* constraint and computes false
C6_Witness ==
    /\ called /\ TupleNested /\ ~all_viol_in_mb
    /\ \E sense \in Senses : TrueViol(sense) # <<>>
    /\ \E sense \in Senses : \E bn \in BranchNames : ExistedBefore(sense, bn)

\* the number of constraints in both containers
NumConstraints ==
    Cardinality({bn \in BranchNames : mb.ineq_pf_branch_thermal_lb[bn] # None})
    + Cardinality({bn \in BranchNames : mb.ineq_pf_branch_thermal_ub[bn] # None})

\* C7: with a persistent solver every stored constraint is followed at once by
\* one solver.add_constraint of that constraint, no other solver call is made,
\* and the solver has received each constraint of the model exactly once; with
\* any other solver no call is made at all.
C7_SolverSync ==
    /\ \A k \in DOMAIN output :
         /\ output[k].ev = "setitem" =>
              IF persistent_solver
              THEN /\ k + 1 \in DOMAIN output
                   /\ output[k + 1] = [output[k] EXCEPT !.ev = "add_constraint"]
              ELSE TRUE
         /\ output[k].ev = "add_constraint" =>
              /\ persistent_solver
              /\ k - 1 \in DOMAIN output
              /\ output[k - 1] = [output[k] EXCEPT !.ev = "setitem"]
    /\ IF persistent_solver
       THEN /\ Len(solver) = NumConstraints
            /\ {Some(solver[k]) : k \in DOMAIN solver} =
                 {Container(sense)[bn] : sense \in Senses, bn \in BranchNames} \ {None}
       ELSE solver = <<>>

\* C7 case: a persistent solver, a call that adds a constraint while another
\* one exists already
C7_Witness ==
    /\ persistent_solver
    /\ Len(solver) >= 2
    /\ \E sense \in Senses : \E bn \in BranchNames : CreatedNow(sense, bn)
    /\ \E sense \in Senses : \E bn \in BranchNames : ExistedBefore(sense, bn)

\* the events of a call that belong to one direction
Directed(k) == output[k].sense \in Senses

\* C8: in the event log of a call every lower-direction event precedes every
\* upper-direction event, and within a direction the events follow ascending
\* PTDF row index.
C8_Ordering ==
    \A k1, k2 \in DOMAIN output :
        (k1 < k2 /\ Directed(k1) /\ Directed(k2)) =>
            /\ ~(output[k1].sense = "UB" /\ output[k2].sense = "LB")
            /\ output[k1].sense = output[k2].sense =>
                 RowOf(output[k1].bn) <= RowOf(output[k2].bn)

\* C8 case: a call that handles a lower-direction violation of a later row
\* and an upper-direction violation of an earlier row, with a new constraint
\* and a solver call among the events
C8_Witness ==
    \E b1, b2 \in BranchNames :
        /\ RowOf(b2) < RowOf(b1)
        /\ EventsAt("print", "LB", b1) # {}
        /\ EventsAt("print", "UB", b2) # {}
        /\ EventsAt("add_constraint", "UB", b2) # {}

\* C9 as stated: per call and (branch, direction) at most one diagnostic; the
\* "Adding line" message exactly once iff the constraint is created in the call,
\* the warning exactly once iff the constraint existed and the branch is a true
\* violation of the direction.
C9_Original ==
    called =>
      \A sense \in Senses : \A bn \in BranchNames :
        /\ Cardinality(EventsAt("print", sense, bn)) <= 1
        /\ Cardinality(DiagsAt(MonitorKind, sense, bn)) =
             (IF CreatedNow(sense, bn) THEN 1 ELSE 0)
        /\ Cardinality(DiagsAt(WarningKind, sense, bn)) =
             (IF ExistedBefore(sense, bn) /\ RowOf(bn) \in Range(TrueViol(sense))
              THEN 1 ELSE 0)

\* C9 as amended: per call and (branch, direction) at most one diagnostic; the
\* "Adding line" message exactly once iff the constraint is created in the call,
\* the warning exactly once iff the constraint existed and the branch is both a
\* lazy and a true violation of the direction.
C9_OneDiagnostic ==
    called =>
      \A sense \in Senses : \A bn \in BranchNames :
        /\ Cardinality(EventsAt("print", sense, bn)) <= 1
        /\ Cardinality(DiagsAt(MonitorKind, sense, bn)) =
             (IF CreatedNow(sense, bn) THEN 1 ELSE 0)
        /\ Cardinality(DiagsAt(WarningKind, sense, bn)) =
             (IF /\ ExistedBefore(sense, bn)
                 /\ RowOf(bn) \in Range(TrueViol(sense)) \cap Range(LazyViol(sense))
              THEN 1 ELSE 0)

\* C9 case: one call prints a warning for one pair and an "Adding line"
\* message for another
C9_Witness ==
    /\ called
    /\ \E sense \in Senses : \E bn \in BranchNames : DiagsAt(WarningKind, sense, bn) # {}
    /\ \E sense \in Senses : \E bn \in BranchNames : DiagsAt(MonitorKind, sense, bn) # {}

\* the last option call was check_and_scale_ptdf_options on a dict holding all
\* five options
ScaledFullDict ==
    /\ opt_outcome \notin {"none", "populated"}
    /\ \A key \in OptionKeys : opt_before[key] # None

\* abs_flow_tol / baseMVA < lazy_rel_flow_tol, on the dict before the call
ScaledBelowLazy ==
    RatLess(RatDiv(opt_before["abs_flow_tol"][1], opt_baseMVA),
            opt_before["lazy_rel_flow_tol"][1])

\* C10 as stated: check_and_scale_ptdf_options fails with the configuration
\* error exactly when abs_flow_tol / baseMVA < lazy_rel_flow_tol and completes
\* normally in every other case, whichever warnings it prints.
C10_ConfigErrorExactly ==
    ScaledFullDict =>
        opt_outcome = (IF ScaledBelowLazy THEN "ConfigError" ELSE "ok")

\* the enforced limit of a branch: its strict rating
EnforcedLimitOf(rating) == Rat(rating, 1)

\* the lazy limit of a branch, rating * (1 + lazy_rel_flow_tol): the band in
\* which lazy_rel_flow_tol = -0.15 monitors at 85% of the rating
LazyLimitOf(rating, lazy_rel_flow_tol) ==
    Rat(rating * (1000000 * lazy_rel_flow_tol.d + lazy_rel_flow_tol.n),
        1000000 * lazy_rel_flow_tol.d)

\* some branch of the bundle gets a lazy limit above its enforced limit
LazyAboveEnforced(lazy_rel_flow_tol) ==
    \E bn \in BranchNames :
        RatLess(EnforcedLimitOf(RatingOf(bn)), LazyLimitOf(RatingOf(bn), lazy_rel_flow_tol))

\* C11 as stated: every configuration check_and_scale_ptdf_options accepts
\* gives each branch a lazy limit that is at most its enforced limit, and every
\* configuration that would put a lazy limit above the enforced limit ends in
\* an error.
C11_LazyWithinEnforced ==
    ScaledFullDict =>
        /\ opt_outcome = "ok" => ~LazyAboveEnforced(opt_before["lazy_rel_flow_tol"][1])
        /\ LazyAboveEnforced(opt_before["lazy_rel_flow_tol"][1]) => opt_outcome # "ok"

\* the defaults as a table: rel_ptdf_tol 1e-6, abs_ptdf_tol 1e-10, abs_flow_tol
\* 1e-3, rel_flow_tol 1e-5, lazy_rel_flow_tol -0.15
FixedDefaults ==
    [rel_ptdf_tol |-> Rat(1, 1), abs_ptdf_tol |-> Rat(100, 1), abs_flow_tol |-> Rat(1000, 1),
     rel_flow_tol |-> Rat(10, 1), lazy_rel_flow_tol |-> Rat(0 - 150000, 1)]

\* C12: populate_default_ptdf_options keeps the value of every key the dict
\* already had, sets each absent recognized key to its fixed default, and a
\* second call on the result changes nothing.
C12_NoOverwrite ==
    opt_outcome = "populated" =>
        /\ \A key \in DOMAIN opt_before :
              opt_before[key] # None => ptdf_options_dict[key] = opt_before[key]
        /\ \A key \in OptionKeys :
              opt_before[key] = None => ptdf_options_dict[key] = Some(FixedDefaults[key])
        /\ populate_default_ptdf_options(ptdf_options_dict) = ptdf_options_dict

\* a call on a dict with a supplied non-default value, an absent recognized
\* key and an unrecognized key
C12_Witness ==
    /\ opt_outcome = "populated"
    /\ opt_before[OtherKey] # None
    /\ \E key \in OptionKeys : opt_before[key] = None
    /\ \E key \in OptionKeys :
          opt_before[key] # None /\ opt_before[key] # Some(FixedDefaults[key])

\* the branches whose flow lies strictly outside [-enforced_limit, +enforced_limit]
StrictlyOutside ==
    {i \in BranchIdx : \/ PFV[i] > PTDF_dict.enforced_branch_limits[i]
                       \/ PFV[i] < 0 - PTDF_dict.enforced_branch_limits[i]}

\* C15: viol_num is the number of branches whose flow lies strictly outside
\* the enforced band; a flow equal to +limit or -limit is in neither
\* enforced set; no branch is in both gt_viol and lt_viol, and neither lists a
\* branch twice, so viol_num = |gt_viol| + |lt_viol| counts each violating
\* branch once.
C15_StrictCount ==
    /\ viol_num = Cardinality(StrictlyOutside)
    /\ viol_num = Len(viols_tup.gt_viol) + Len(viols_tup.lt_viol)
    /\ Range(viols_tup.gt_viol) \cup Range(viols_tup.lt_viol) = StrictlyOutside
    /\ Range(viols_tup.gt_viol) \cap Range(viols_tup.lt_viol) = {}
    /\ Len(viols_tup.gt_viol) = Cardinality(Range(viols_tup.gt_viol))
    /\ Len(viols_tup.lt_viol) = Cardinality(Range(viols_tup.lt_viol))
    /\ \A i \in BranchIdx :
          \/ PFV[i] = PTDF_dict.enforced_branch_limits[i]
          \/ PFV[i] = 0 - PTDF_dict.enforced_branch_limits[i]
          => i \notin Range(viols_tup.gt_viol) \cup Range(viols_tup.lt_viol)

\* a check that found one branch exactly at its positive limit and another
\* beyond its limit
C15_Witness ==
    /\ nw_evals # <<>>
    /\ viol_num = 1
    /\ \E i \in BranchIdx : /\ PTDF_dict.enforced_branch_limits[i] > 0
                             /\ PFV[i] = PTDF_dict.enforced_branch_limits[i]

\* C16: a check_violations call evaluates each bus-injection expression once,
\* in bus order, forms the flows from those values, and leaves the PTDF
\* bundle, the constraint containers, the flow-expression slots, the branch
\* records and the solver as they were.
C16_EvalOnceNoSideEffect ==
    [][called' = FALSE =>
          /\ nw_evals' = [k \in 1 .. NumBuses |-> k - 1]
          /\ PFV' = Dot(PTDF_dict.PTDFM, bus_nw_exprs')
          /\ PTDF_dict' = PTDF_dict
          /\ mb' = mb
          /\ branches' = branches
          /\ solver' = solver]_vars

\* a check made on a model that already holds a constraint and a flow
\* expression
C16_Witness ==
    /\ ~called
    /\ nw_evals # <<>>
    /\ NumConstraints > 0
    /\ \E bn \in BranchNames : mb.pf[bn] # None
    /\ \E j \in BusIdx : bus_nw_exprs[j] # 0

\* C17: over any sequence of calls the flow expression of a branch is built
\* and stored at most once, only into an empty slot, and its PTDF row is
\* filled at most once; a stored expression is never replaced, and every
\* constraint of the branch, of either direction, holds the stored expression.
C17_BuiltOnce ==
    [][\A bn \in BranchNames :
          /\ builds'[bn].pf <= 1
          /\ builds'[bn].ptdf <= 1
          /\ builds'[bn].pf > builds[bn].pf => mb.pf[bn] = None
          /\ mb.pf[bn] # None => mb'.pf[bn] = mb.pf[bn]
          /\ branches[bn].ptdf # None => branches'[bn].ptdf = branches[bn].ptdf
          /\ mb'.ineq_pf_branch_thermal_lb[bn] # None =>
                mb'.ineq_pf_branch_thermal_lb[bn][1][2] = mb'.pf[bn]
          /\ mb'.ineq_pf_branch_thermal_ub[bn] # None =>
                mb'.ineq_pf_branch_thermal_ub[bn][1][2] = mb'.pf[bn]]_vars

\* a branch whose upper constraint was created by a later call than its
\* lower constraint, with one build of its expression
C17_Witness ==
    \E bn \in BranchNames :
        /\ called
        /\ CreatedNow("UB", bn)
        /\ ExistedBefore("LB", bn)
        /\ builds[bn].pf = 1
        /\ builds[bn].ptdf = 1

\* the events of a call that add a constraint to the model or to the solver
Additions(out) == {k \in DOMAIN out : out[k].ev \in {"setitem", "add_constraint"}}

\* C20: every call that adds a constraint or makes a solver.add_constraint
\* call raises the number of constraints of the model, no step lowers it, and
\* it never exceeds 2 * (number of branches); so at most that many calls of a
\* run add a constraint, and from the last of them on none does.
C20_BoundedAdditions ==
    [][/\ NumConstraints' >= NumConstraints
       /\ NumConstraints' <= 2 * NumBranches
       /\ (called' /\ Additions(output') # {}) => NumConstraints' > NumConstraints
       /\ solver' # solver => NumConstraints' > NumConstraints
       /\ NumConstraints = 2 * NumBranches =>
             (Additions(output') = {} /\ solver' = solver)]_vars

\* a call on the saturated model that met lazy violations of both directions
\* and added nothing
C20_Witness ==
    /\ called
    /\ NumConstraints = 2 * NumBranches
    /\ Additions(output) = {}
    /\ viols_tup.lt_viol_lazy # <<>>
    /\ viols_tup.gt_viol_lazy # <<>>

----------------------------------------------------------------------------
(* Properties of the single-branch example *)

\* the last check read the injections [60, -60]
Checked60 == nw_evals # <<>> /\ bus_nw_exprs = Balanced(60)

\* the last check read the injections [45, -45]
Checked45 == nw_evals # <<>> /\ bus_nw_exprs = Balanced(45)

\* the last add_violations call found the model block empty
EmptyBefore ==
    /\ called
    /\ EventsAt("set_pf", "", ScenarioBranch) # {}
    /\ \A sense \in Senses : ~ExistedBefore(sense, ScenarioBranch)

\* the last call stored the upper constraint, bounded at 100, and no lower one
UpperAdded ==
    /\ CreatedNow("UB", ScenarioBranch)
    /\ mb.ineq_pf_branch_thermal_ub[ScenarioBranch]
         = Some(<<None, mb.pf[ScenarioBranch], Some(100)>>)
    /\ mb.ineq_pf_branch_thermal_lb[ScenarioBranch] = None
    /\ DiagsAt(MonitorKind, "UB", ScenarioBranch) # {}

\* the last call printed no "flow exceeds limit" warning
NoWarning == \A sense \in Senses : DiagsAt(WarningKind, sense, ScenarioBranch) = {}

\* C13 as stated: after a check on [60, -60] the branch is in gt_viol_lazy
\* only, with violation count 0, and add_violations on the empty model adds
\* the upper constraint, prints no warning and computes all-covered as true.
C13_Original ==
    Checked60 =>
        /\ viols_tup.gt_viol_lazy = <<0>>
        /\ viols_tup.gt_viol = <<>>
        /\ viol_num = 0
        /\ EmptyBefore => (UpperAdded /\ NoWarning /\ all_viol_in_mb)

\* C13 as amended: the flow of [60, -60] is 120, above both limits, so the
\* branch is in gt_viol_lazy and in gt_viol with violation count 1, and
\* add_violations on the empty model adds the upper constraint at 100, prints
\* no warning, computes all_viol_in_mb as false and returns None.  The flow
\* of [45, -45] is 90: the branch is in gt_viol_lazy only, the count is 0, the
\* same constraint is added and all_viol_in_mb is true.
C13_Scenario ==
    /\ Checked60 =>
          /\ PFV[0] = 120
          /\ viols_tup = [gt_viol |-> <<0>>, lt_viol |-> <<>>,
                          gt_viol_lazy |-> <<0>>, lt_viol_lazy |-> <<>>]
          /\ viol_num = 1
          /\ EmptyBefore => (UpperAdded /\ NoWarning /\ ~all_viol_in_mb /\ ret = None)
    /\ Checked45 =>
          /\ PFV[0] = 90
          /\ viols_tup = [gt_viol |-> <<>>, lt_viol |-> <<>>,
                          gt_viol_lazy |-> <<0>>, lt_viol_lazy |-> <<>>]
          /\ viol_num = 0
          /\ EmptyBefore => (UpperAdded /\ NoWarning /\ all_viol_in_mb /\ ret = None)

\* add_violations has run on the empty model after the check of [60, -60]
C13_Witness == Checked60 /\ EmptyBefore /\ UpperAdded

----------------------------------------------------------------------------
(* Properties of the schema validators *)

\* the quantity supplied for a field of the last system input lacks its units
\* or carries other units than the given ones
WrongUnits(field, units) ==
    /\ schema_input[field] # None
    /\ schema_input[field][1].units # Some(units)

\* C14: validation fails when a supplied cost quantity lacks its units or has
\* units other than '$', when baseMVA is supplied with units other than 'MVA'
\* and when time_period_length_minutes is supplied with units other than
\* 'min'; when every supplied quantity carries its expected units, no error is
\* located at a supplied field.
C14_UnitsChecked ==
    schema_call = "system" =>
        /\ \A f \in CostFields : WrongUnits(f, "$") => schema_errors # {}
        /\ WrongUnits("baseMVA", "MVA") => schema_errors # {}
        /\ WrongUnits("time_period_length_minutes", "min") => schema_errors # {}
        /\ (/\ \A f \in CostFields : ~WrongUnits(f, "$")
            /\ ~WrongUnits("baseMVA", "MVA")
            /\ ~WrongUnits("time_period_length_minutes", "min"))
           => \A e \in schema_errors : schema_input[e.loc] = None

\* an input whose only flaw is load_mismatch_cost in '#'
C14_Witness ==
    /\ schema_call = "system"
    /\ schema_input["load_mismatch_cost"] = Some([units |-> Some("#")])
    /\ schema_input["baseMVA"] = Some([units |-> Some("MVA")])
    /\ schema_input["time_period_length_minutes"] = Some([units |-> Some("min")])
    /\ schema_input["total_cost"] = Some([units |-> Some("$")])
    /\ schema_input["reserve_shortfall_cost"] = None
    /\ schema_errors = {SchemaError("load_mismatch_cost", "value_error")}

\* C19 as stated: an integer other than 0 or 1 and a time series with a value
\* other than 0, 1 or None are rejected with a validation error, while 0, 1,
\* None and time series of only those values are accepted.
C19_BinaryCommitment ==
    schema_call = "fixed_commitment" =>
        /\ schema_input.type = "None" => schema_errors = {}
        /\ schema_input.type = "int" =>
              (schema_errors = {} <=> schema_input.value \in {0, 1})
        /\ (schema_input.type = "TimeSeries" /\ schema_input.values # None) =>
              (schema_errors = {} <=>
                 \A k \in DOMAIN schema_input.values[1] :
                     schema_input.values[1][k] \in {0, 1})

----------------------------------------------------------------------------
(* Properties of the relaxer and enforcer *)

\* the variables _binary_var_generator selects on the instance
Selected == Range(_binary_var_generator(instance))

\* the call made last
LastCall == uc_calls[Len(uc_calls)]

\* the last call made one update_var per selected variable if the solver is
\* persistent and none otherwise
OneUpdateEach ==
    IF uc_persistent
    THEN /\ Len(uc_updates) = Cardinality(Selected)
         /\ Range(uc_updates) = Selected
    ELSE uc_updates = <<>>

\* C18: after the relaxer every selected variable has the unit-interval
\* domain, after the enforcer every selected variable has the binary domain,
\* so relax followed by enforce leaves them binary; neither touches another
\* variable; each call makes one solver.update_var per selected variable with
\* a persistent solver and none otherwise.
C18_RelaxEnforce ==
    uc_calls # <<>> =>
        /\ \A v \in Selected :
              var_domain[v] = (IF LastCall = "relax" THEN "UnitInterval" ELSE "Binary")
        /\ \A v \in DOMAIN var_domain \ Selected : var_domain[v] = "Binary"
        /\ OneUpdateEach

\* relax followed by enforce, with a persistent solver, on an instance whose
\* formulation selects status, regulation, storage and startup variables
C18_Witness ==
    /\ uc_calls = <<"relax", "enforce">>
    /\ uc_persistent
    /\ instance.status_vars = "garver_3bin_vars"
    /\ instance.startup_costs = "KOW_startup_costs"
    /\ instance.regulation
    /\ Len(uc_updates) = Cardinality(Selected)
    /\ DOMAIN var_domain \ Selected # {}
    /\ \A v \in Selected : var_domain[v] = "Binary"

====
